---- MODULE Spec2Model ----
(***************************************************************************)
(* Model of the quiz/timer broadcaster of src/main.go: the shared          *)
(* `question` record guarded by `questionMutex`, the unguarded `pause`     *)
(* flag, the operator loop of startCLI with its local `lastTime`, the HTTP *)
(* handlers getQuestion and setQuestion, and the notification goroutine    *)
(* sendCurrentQuestion.  Program counters are source line numbers of       *)
(* src/main.go; 0 means "not running" (a handler) or "at rl.Readline()".   *)
(***************************************************************************)
EXTENDS Integers, Sequences, FiniteSets, TLC

(***************************************************************************)
(* Bounds of the model.                                                    *)
(***************************************************************************)
\* the wall clock advances in whole seconds, from 0 up to MaxTime
MaxTime == 2
\* the operator types `time <N>` for the one-digit N in 0..MaxSeconds
\* (and for the large N of BigArg)
MaxSeconds == 1
\* notification goroutines spawned and not yet started
MaxPending == 1

(***************************************************************************)
(* 64-bit integers.  time.Duration is an int64 count of nanoseconds and    *)
(* Go's int is 64 bits wide on the 64-bit builds this server targets; a    *)
(* value is kept as four 16-bit limbs, least significant first, in two's   *)
(* complement, so that every operation wraps modulo 2^64 as Go's does.     *)
(***************************************************************************)
Limb == 2^16

Zero64 == <<0, 0, 0, 0>>

One64 == <<1, 0, 0, 0>>

\* the int64 of a small natural number (n < 2^31)
FromNat(n) == <<n % Limb, (n \div Limb) % Limb, 0, 0>>

\* a + b, wrapping
Add64(a, b) ==
    LET s1 == a[1] + b[1]
        s2 == a[2] + b[2] + (s1 \div Limb)
        s3 == a[3] + b[3] + (s2 \div Limb)
        s4 == a[4] + b[4] + (s3 \div Limb)
    IN  <<s1 % Limb, s2 % Limb, s3 % Limb, s4 % Limb>>

\* -a, wrapping
Neg64(a) ==
    Add64(<<Limb - 1 - a[1], Limb - 1 - a[2], Limb - 1 - a[3], Limb - 1 - a[4]>>, One64)

\* a - b, wrapping
Sub64(a, b) == Add64(a, Neg64(b))

\* a < 0: the sign bit
IsNeg64(a) == a[4] >= Limb \div 2

\* a * k for a natural number k <= 2^15, wrapping: limb by limb with carry
MulLimb64(a, k) ==
    LET p1 == a[1] * k
        p2 == a[2] * k + (p1 \div Limb)
        p3 == a[3] * k + (p2 \div Limb)
        p4 == a[4] * k + (p3 \div Limb)
    IN  <<p1 % Limb, p2 % Limb, p3 % Limb, p4 % Limb>>

\* a * k for a natural number k < 2^30, wrapping: k = hi * 2^15 + lo
MulNat64(a, k) ==
    Add64(MulLimb64(MulLimb64(a, k \div 2^15), 2^15), MulLimb64(a, k % 2^15))

\* time.Second, in nanoseconds
Second == 1000000000

\* time.Duration(n) * time.Second
Seconds(n) == MulNat64(n, Second)

\* a / 2^9 for a >= 0
ShiftRight9(a) ==
    <<(a[1] \div 512) + (a[2] % 512) * 128, (a[2] \div 512) + (a[3] % 512) * 128,
      (a[3] \div 512) + (a[4] % 512) * 128, a[4] \div 512>>

\* a / k for a >= 0 and 0 < k < 2^22: long division over the eight bytes of a
DivSmall64(a, k) ==
    LET n1 == a[4] \div 256
        n2 == (n1 % k) * 256 + (a[4] % 256)
        n3 == (n2 % k) * 256 + (a[3] \div 256)
        n4 == (n3 % k) * 256 + (a[3] % 256)
        n5 == (n4 % k) * 256 + (a[2] \div 256)
        n6 == (n5 % k) * 256 + (a[2] % 256)
        n7 == (n6 % k) * 256 + (a[1] \div 256)
        n8 == (n7 % k) * 256 + (a[1] % 256)
    IN  <<(n7 \div k) * 256 + (n8 \div k), (n5 \div k) * 256 + (n6 \div k),
          (n3 \div k) * 256 + (n4 \div k), (n1 \div k) * 256 + (n2 \div k)>>

\* int(d.Seconds()): the whole seconds of a duration, truncated towards zero;
\* time.Second is 2^9 * 1953125 nanoseconds
WholeSeconds(d) ==
    IF IsNeg64(d) THEN Neg64(DivSmall64(ShiftRight9(Neg64(d)), 1953125))
    ELSE DivSmall64(ShiftRight9(d), 1953125)

\* the default budget of initializeQuestion, in seconds
DefaultSeconds == 30

(***************************************************************************)
(* The clock.  time.Now() reads `now`; time.Since(t) is the nanoseconds    *)
(* between t and now.                                                      *)
(***************************************************************************)
VARIABLES
    question,       \* the shared record (Question, TimeLeft, Type, StartTime, CountUp)
    questionMutex,  \* sync.RWMutex: w the writer that announced itself, held whether
                    \* it is inside, r the set of read holders
    pause,          \* the process-wide flag, read and written without questionMutex:
                    \* a read that races with a write returns the value before or
                    \* after it, which the interleaving of the steps covers
    lastTime,       \* startCLI's local: the N of the last accepted `time <N>`
    now,            \* wall clock, seconds
    cli,            \* the operator loop: pc, args of the command, parsed timeLeft
    get,            \* getQuestion handlers: pc, q (the copy), paused and t (the flag
                    \* and the clock as read), resp (the response body)
    post,           \* setQuestion handlers: pc, newQuestion, resp
    pending,        \* sendCurrentQuestion goroutines spawned and not yet started
    committed,      \* history: the record as it stood when a writer last unlocked
    toggle,         \* history: the pause / un-pause pair in progress
    commands        \* startCLI's local: the segments of the line read that the loop
                    \* of line 254 has not reached yet

vars == <<question, questionMutex, pause, lastTime, now, cli, get, post,
          pending, committed, toggle, commands>>

\* n seconds as a time.Duration, for the n the clock and the budgets range over
DurationOf == [n \in 0..DefaultSeconds |-> Seconds(FromNat(n))]

\* time.Since(t), with t a clock reading
Since(t) == DurationOf[now - t]

(***************************************************************************)
(* Texts are kept as the sequence of their space-separated words, which is *)
(* what strings.Fields and strings.Join(args[1:], " ") leave of them.      *)
(***************************************************************************)
DefaultText == <<"Default", "question">>

EndText == <<"END">>

\* Question{}: the zero value of the struct
NoQuestion ==
    [Question |-> <<>>, TimeLeft |-> Zero64, Type |-> "", StartTime |-> 0,
     CountUp |-> FALSE]

\* the record initializeQuestion stores
InitialQuestion ==
    [Question |-> DefaultText, TimeLeft |-> Seconds(FromNat(DefaultSeconds)),
     Type |-> "pomoc", StartTime |-> 0, CountUp |-> FALSE]

Readers == {"g1", "g2"}

Posters == {"p1"}

\* a handler not running; c is history: the committed record when q was copied
IdleGet ==
    [pc |-> 0, q |-> NoQuestion, c |-> NoQuestion, paused |-> FALSE, t |-> 0,
     resp |-> NoQuestion]

IdlePost ==
    [pc |-> 0, wait |-> FALSE, newQuestion |-> NoQuestion, status |-> 0,
     resp |-> NoQuestion]

\* nothing printed by `status`
NoStatus == [Question |-> <<>>, Seconds |-> Zero64, Type |-> ""]

\* the loop at rl.Readline(); t and out are the clock as `status` read it and the
\* lines it printed
IdleCli ==
    [pc |-> 0, wait |-> FALSE, args |-> <<>>, timeLeft |-> Zero64, t |-> 0,
     out |-> NoStatus]

NoToggle == [stage |-> 0, r |-> 0, at |-> 0]

Init ==
    /\ question = InitialQuestion
    /\ questionMutex = [w |-> "none", held |-> FALSE, r |-> {}]
    /\ pause = FALSE
    /\ lastTime = Zero64
    /\ now = 0
    /\ cli = IdleCli
    /\ get = [h \in Readers |-> IdleGet]
    /\ post = [h \in Posters |-> IdlePost]
    /\ pending = 0
    /\ committed = InitialQuestion
    /\ toggle = NoToggle
    /\ commands = <<>>

\* the wall clock advances
Tick ==
    /\ now < MaxTime
    /\ now' = now + 1
    /\ UNCHANGED <<question, questionMutex, pause, lastTime, cli, get, post,
                   pending, committed, toggle, commands>>

(***************************************************************************)
(* questionMutex.  Lock announces the writer (from then on RLock blocks)   *)
(* and then waits for the readers inside to leave; RLock enters unless a   *)
(* writer has announced itself.                                            *)
(***************************************************************************)
\* RLock as it would be were a reader let in past a writer that waits
RLockPastWriter(self) ==
    /\ ~questionMutex.held
    /\ questionMutex' = [questionMutex EXCEPT !.r = @ \cup {self}]

RLock(self) ==
    /\ questionMutex.w = "none"
    /\ questionMutex' = [questionMutex EXCEPT !.r = @ \cup {self}]

RUnlock(self) ==
    questionMutex' = [questionMutex EXCEPT !.r = @ \ {self}]

LockAnnounce(self) ==
    /\ questionMutex.w = "none"
    /\ questionMutex' = [questionMutex EXCEPT !.w = self]

LockEnter(self) ==
    /\ questionMutex.w = self
    /\ ~questionMutex.held
    /\ questionMutex.r = {}
    /\ questionMutex' = [questionMutex EXCEPT !.held = TRUE]

Unlock(self) ==
    questionMutex' = [questionMutex EXCEPT !.w = "none", !.held = FALSE]

(***************************************************************************)
(* GET /get-question                                                       *)
(***************************************************************************)
\* derive as it would be were the pause flag not consulted
deriveUnpaused(q, paused, since) ==
    IF q.CountUp THEN [q EXCEPT !.TimeLeft = since]
    ELSE LET left == Sub64(q.TimeLeft, since)
         IN  IF IsNeg64(left)
             THEN [q EXCEPT !.TimeLeft = Zero64, !.Type = "end"]
             ELSE [q EXCEPT !.TimeLeft = left]

\* derive as it would be were the count-up flag not consulted
deriveCountdownOnly(q, paused, since) ==
    IF paused THEN q
    ELSE LET left == Sub64(q.TimeLeft, since)
         IN  IF IsNeg64(left)
             THEN [q EXCEPT !.TimeLeft = Zero64, !.Type = "end"]
             ELSE [q EXCEPT !.TimeLeft = left]

\* lines 109-121: the projection of the copy q, given the pause flag read and the
\* value time.Since(q.StartTime) returned
derive(q, paused, since) ==
    IF paused THEN q
    ELSE IF q.CountUp THEN [q EXCEPT !.TimeLeft = since]
    ELSE LET left == Sub64(q.TimeLeft, since)
         IN  IF IsNeg64(left)
             THEN [q EXCEPT !.TimeLeft = Zero64, !.Type = "end"]
             ELSE [q EXCEPT !.TimeLeft = left]

\* line 103: the handler is called and stands at questionMutex.RLock()
getArrive(h) ==
    /\ get[h].pc = 0
    /\ get' = [get EXCEPT ![h].pc = 104]
    /\ UNCHANGED <<question, questionMutex, pause, lastTime, now, cli, post,
                   pending, committed, toggle, commands>>

\* getCopy as it would be had the handler not taken the read lock
getCopyUnlocked(h) ==
    /\ get[h].pc \in {0, 104}
    /\ get' = [get EXCEPT ![h].pc = 109, ![h].q = question, ![h].c = committed]
    /\ UNCHANGED <<question, questionMutex, pause, lastTime, now, cli, post,
                   pending, committed, toggle, commands>>

\* lines 104-107: questionMutex.RLock(); q := question, by a handler just called
\* or one that has been waiting at line 104
getCopy(h) ==
    /\ get[h].pc \in {0, 104}
    /\ RLock(h)
    /\ get' = [get EXCEPT ![h].pc = 109, ![h].q = question, ![h].c = committed]
    /\ UNCHANGED <<question, pause, lastTime, now, cli, post, pending,
                   committed, toggle, commands>>

\* getRespond as it would be were q the stored record itself (q := &question), so
\* that the projection is written through to it
getRespondInPlace(h) ==
    /\ get[h].pc = 109
    /\ get' = [get EXCEPT ![h].pc = 123, ![h].paused = pause, ![h].t = now,
                          ![h].resp = derive(get[h].q, pause, Since(get[h].q.StartTime))]
    /\ question' = derive(get[h].q, pause, Since(get[h].q.StartTime))
    /\ UNCHANGED <<questionMutex, pause, lastTime, now, cli, post, pending,
                   committed, toggle, commands>>

\* lines 109-123: read pause, derive the projection, write the response
getRespond(h) ==
    /\ get[h].pc = 109
    /\ get' = [get EXCEPT ![h].pc = 123, ![h].paused = pause, ![h].t = now,
                          ![h].resp = derive(get[h].q, pause, Since(get[h].q.StartTime))]
    /\ UNCHANGED <<question, questionMutex, pause, lastTime, now, cli, post,
                   pending, committed, toggle, commands>>

\* line 105 (deferred): questionMutex.RUnlock() as the handler returns
getReturn(h) ==
    /\ get[h].pc = 123
    /\ RUnlock(h)
    /\ get' = [get EXCEPT ![h] = IdleGet]
    /\ UNCHANGED <<question, pause, lastTime, now, cli, post, pending,
                   committed, toggle, commands>>

getQuestion(h) == getCopy(h) \/ getRespond(h) \/ getReturn(h)

(***************************************************************************)
(* sendCurrentQuestion, started by `go sendCurrentQuestion()`              *)
(***************************************************************************)
\* the writers that have passed their reading of the input and will spawn a
\* notification: the `question` command (lines 285-292) and setQuestion (136-145)
Spawning ==
    (IF cli.pc \in 285..288 THEN 1 ELSE 0)
    + Cardinality({p \in Posters : post[p].pc \in 136..142})

\* there is room for one more notification goroutine within MaxPending
SpawnRoom == pending + Spawning < MaxPending

\* lines 166-185: a spawned goroutine runs: it marshals question between RLock and
\* RUnlock, which it can do when no writer has announced itself, and sends the
\* outbound POST, whose outcome is only logged
sendCurrentQuestion ==
    /\ pending > 0
    /\ questionMutex.w = "none"
    /\ pending' = pending - 1
    /\ UNCHANGED <<question, questionMutex, pause, lastTime, now, cli, get, post,
                   committed, toggle, commands>>

(***************************************************************************)
(* POST /set-question                                                      *)
(***************************************************************************)
ValidTypes == {"pomoc", "rozstrel", "waiting", "end"}

\* validateQuestion as it would be without the test of time_left
validateTypeOnly(q) == q.Type \in ValidTypes

\* lines 150-164: TRUE when validateQuestion returns nil
validateQuestion(q) == ~IsNeg64(q.TimeLeft) /\ q.Type \in ValidTypes

\* -1 nanosecond
MinusOne64 == Neg64(One64)

\* a request body that c.Bind decodes
Body(text, timeLeft, type) ==
    [ok |-> TRUE,
     q |-> [Question |-> text, TimeLeft |-> timeLeft, Type |-> type,
            StartTime |-> 0, CountUp |-> FALSE]]

\* the request bodies: ok is whether c.Bind decodes the body, q what it decodes to
PostBodies ==
    {Body(<<"B">>, DurationOf[1], "pomoc"), Body(<<"B">>, DurationOf[1], "end"),
     Body(<<"B">>, MinusOne64, "pomoc"), Body(<<"B">>, DurationOf[1], "foo"),
     [ok |-> FALSE, q |-> NoQuestion]}

\* lines 127-134: bind and validate; a 400 response on either error
setQuestionReceive(p, body) ==
    /\ post[p].pc = 0
    /\ IF body.ok /\ validateQuestion(body.q)
       THEN /\ SpawnRoom
            /\ post' = [post EXCEPT ![p].pc = 136, ![p].newQuestion = body.q]
       ELSE post' = [post EXCEPT ![p].pc = 148, ![p].newQuestion = body.q,
                                 ![p].status = 400]
    /\ UNCHANGED <<question, questionMutex, pause, lastTime, now, cli, get,
                   pending, committed, toggle, commands>>

\* line 136: questionMutex.Lock(), announcing
setQuestionLock(p) ==
    /\ post[p].pc = 136
    /\ ~post[p].wait
    /\ LockAnnounce(p)
    /\ post' = [post EXCEPT ![p].wait = TRUE]
    /\ UNCHANGED <<question, pause, lastTime, now, cli, get, pending,
                   committed, toggle, commands>>

\* line 136: questionMutex.Lock(), entering once the readers have left
setQuestionLocked(p) ==
    /\ post[p].pc = 136
    /\ post[p].wait
    /\ LockEnter(p)
    /\ post' = [post EXCEPT ![p].wait = FALSE, ![p].pc = 137]
    /\ UNCHANGED <<question, pause, lastTime, now, cli, get, pending,
                   committed, toggle, commands>>

\* lines 137-141, inside the lock: question = *newQuestion; question.StartTime =
\* time.Now(); if question.Type == "end" { question.Question = "END" }
setQuestionStore(p) ==
    /\ post[p].pc = 137
    /\ question' = [post[p].newQuestion EXCEPT
                      !.StartTime = now,
                      !.Question = IF post[p].newQuestion.Type = "end"
                                   THEN EndText ELSE @]
    /\ post' = [post EXCEPT ![p].pc = 142]
    /\ toggle' = NoToggle
    /\ UNCHANGED <<questionMutex, pause, lastTime, now, cli, get, pending,
                   committed, commands>>

\* lines 142-145: questionMutex.Unlock(); go sendCurrentQuestion()
setQuestionUnlock(p) ==
    /\ post[p].pc = 142
    /\ Unlock(p)
    /\ committed' = question
    /\ pending' = pending + 1
    /\ post' = [post EXCEPT ![p].pc = 147]
    /\ UNCHANGED <<question, pause, lastTime, now, cli, get, toggle, commands>>

\* line 147: return c.JSON(http.StatusOK, question), reading question unlocked
setQuestionRespond(p) ==
    /\ post[p].pc = 147
    /\ post' = [post EXCEPT ![p].pc = 148, ![p].status = 200, ![p].resp = question]
    /\ UNCHANGED <<question, questionMutex, pause, lastTime, now, cli, get,
                   pending, committed, toggle, commands>>

\* the handler has returned
setQuestionReturn(p) ==
    /\ post[p].pc = 148
    /\ post' = [post EXCEPT ![p] = IdlePost]
    /\ UNCHANGED <<question, questionMutex, pause, lastTime, now, cli, get,
                   pending, committed, toggle, commands>>

setQuestion(p) ==
    \/ \E body \in PostBodies : setQuestionReceive(p, body)
    \/ setQuestionLock(p)
    \/ setQuestionLocked(p)
    \/ setQuestionStore(p)
    \/ setQuestionUnlock(p)
    \/ setQuestionRespond(p)
    \/ setQuestionReturn(p)

(***************************************************************************)
(* startCLI: the operator loop.  One command is strings.Fields of one      *)
(* semicolon-separated segment of the line read.  An action that takes a   *)
(* command has the command as args and, as rest, the segments of the line  *)
(* that follow it.                                                         *)
(***************************************************************************)
DigitTok == <<"0", "1", "2", "3", "4", "5", "6", "7", "8", "9">>

\* an N for which N seconds, counted in nanoseconds, exceeds the largest int64
BigArg == "9223372037"

\* the bytes of a token
Chars(tok) ==
    IF \E i \in 1..10 : DigitTok[i] = tok THEN <<tok>>
    ELSE CASE tok = "-5" -> <<"-", "5">>
           [] tok = BigArg -> <<"9", "2", "2", "3", "3", "7", "2", "0", "3", "7">>
           [] OTHER -> <<"a", "b", "c">>

IsDigit(ch) == \E i \in 1..10 : DigitTok[i] = ch

DigitValue(ch) == (CHOOSE i \in 1..10 : DigitTok[i] = ch) - 1

\* n = n*10 + int(ch - '0') over the digits of s
RECURSIVE AtoiLoop(_, _)
AtoiLoop(s, n) ==
    IF s = <<>> THEN n
    ELSE LET m == Add64(MulNat64(n, 10), FromNat(DigitValue(Head(s))))
         IN  IF m = Zero64 THEN AtoiLoop(Tail(s), Zero64) ELSE AtoiLoop(Tail(s), m)

\* strconv.Atoi on a token shorter than 19 bytes: an optional sign, then digits
Atoi(tok) ==
    LET s == Chars(tok)
        signed == Head(s) \in {"-", "+"}
        digits == IF signed THEN Tail(s) ELSE s
    IN  IF digits = <<>> \/ \E i \in 1..Len(digits) : ~IsDigit(digits[i])
        THEN [err |-> TRUE, val |-> Zero64]
        ELSE [err |-> FALSE,
              val |-> IF Head(s) = "-" THEN Neg64(AtoiLoop(digits, Zero64))
                      ELSE AtoiLoop(digits, Zero64)]

\* the commands the operator types
Commands ==
    {<<"question">>, <<"question", "A">>, <<"time">>, <<"time", "last">>,
     <<"time", "pause">>, <<"time", "countUp">>, <<"time", "-5">>,
     <<"time", "abc">>, <<"time", BigArg>>, <<"type">>, <<"type", "foo">>,
     <<"type", "pomoc">>, <<"type", "end">>, <<"status">>, <<"help">>,
     <<"bogus">>}
    \cup {<<"time", DigitTok[n + 1]>> : n \in 0..MaxSeconds}

\* the seconds of a duration that is a whole number of seconds in
\* 0..DefaultSeconds, and -1 for any other duration
SecondsOf(d) ==
    IF \E n \in 0..DefaultSeconds : DurationOf[n] = d
    THEN CHOOSE n \in 0..DefaultSeconds : DurationOf[n] = d
    ELSE -1

\* the whole seconds a countdown has left at clock reading t, clamped at zero
RemainingAt(q, t) ==
    IF SecondsOf(q.TimeLeft) - (t - q.StartTime) > 0
    THEN SecondsOf(q.TimeLeft) - (t - q.StartTime)
    ELSE 0

\* lines 280-284: `question`, with the usage error when no text follows
cliQuestion(args, rest) ==
    /\ cli.pc = 0
    /\ commands' = rest
    /\ args[1] = "question"
    /\ IF Len(args) < 2
       THEN UNCHANGED <<cli, toggle>>
       ELSE /\ SpawnRoom
            /\ cli' = [cli EXCEPT !.pc = 285, !.args = args]
            /\ toggle' = NoToggle
    /\ UNCHANGED <<question, questionMutex, pause, lastTime, now, get, post,
                   pending, committed>>

\* line 286: question.Question = strings.Join(args[1:], " ")
cliSetQuestion ==
    /\ cli.pc = 286
    /\ question' = [question EXCEPT !.Question = SubSeq(cli.args, 2, Len(cli.args))]
    /\ cli' = [cli EXCEPT !.pc = 287]
    /\ UNCHANGED <<questionMutex, pause, lastTime, now, get, post, pending,
                   committed, toggle, commands>>

\* lines 293-297 and the switch on args[1]: `time` with the wrong number of words
cliTimeUsage(args, rest) ==
    /\ cli.pc = 0
    /\ commands' = rest
    /\ args[1] = "time"
    /\ Len(args) # 2
    /\ UNCHANGED <<question, questionMutex, pause, lastTime, now, cli, get, post,
                   pending, committed, toggle>>

\* lines 299-300: `time last`
cliTimeLast(args, rest) ==
    /\ cli.pc = 0
    /\ commands' = rest
    /\ args = <<"time", "last">>
    /\ cli' = [cli EXCEPT !.pc = 300, !.args = args]
    /\ toggle' = NoToggle
    /\ UNCHANGED <<question, questionMutex, pause, lastTime, now, get, post,
                   pending, committed>>

\* lines 306-312: `time pause` toggles the flag; un-pausing goes on to restart
cliTimePause(args, rest) ==
    /\ cli.pc = 0
    /\ commands' = rest
    /\ args = <<"time", "pause">>
    /\ pause' = ~pause
    /\ IF pause'
       THEN /\ UNCHANGED cli
            /\ toggle' = IF questionMutex.w = "none" /\ ~question.CountUp
                            /\ SecondsOf(question.TimeLeft) >= 0
                         THEN [stage |-> 1, r |-> RemainingAt(question, now), at |-> 0]
                         ELSE NoToggle
       ELSE /\ cli' = [cli EXCEPT !.pc = 312, !.args = args]
            /\ UNCHANGED toggle
    /\ UNCHANGED <<question, questionMutex, lastTime, now, get, post, pending,
                   committed>>

\* lines 316-317: `time countUp`
cliTimeCountUp(args, rest) ==
    /\ cli.pc = 0
    /\ commands' = rest
    /\ args = <<"time", "countUp">>
    /\ cli' = [cli EXCEPT !.pc = 317, !.args = args]
    /\ toggle' = NoToggle
    /\ UNCHANGED <<question, questionMutex, pause, lastTime, now, get, post,
                   pending, committed>>

\* acceptTime as it would be without the test of the sign
acceptTimeUnsigned(parsed) == ~parsed.err

\* line 324: the test that accepts the parsed number
acceptTime(parsed) == ~parsed.err /\ ~IsNeg64(parsed.val)

\* lines 322-329: `time <N>`
cliTimeSeconds(args, rest) ==
    /\ cli.pc = 0
    /\ commands' = rest
    /\ Len(args) = 2
    /\ args[1] = "time"
    /\ args[2] \notin {"last", "pause", "countUp"}
    /\ IF acceptTime(Atoi(args[2]))
       THEN /\ lastTime' = Atoi(args[2]).val
            /\ cli' = [cli EXCEPT !.pc = 329, !.args = args,
                                  !.timeLeft = Atoi(args[2]).val]
            /\ toggle' = NoToggle
       ELSE UNCHANGED <<lastTime, cli, toggle>>
    /\ UNCHANGED <<question, questionMutex, pause, now, get, post, pending,
                   committed>>

\* lines 301 and 330: question.TimeLeft = time.Duration(n) * time.Second, with n
\* lastTime for `time last` and timeLeft for `time <N>`
cliSetTimeLeft ==
    /\ cli.pc \in {301, 330}
    /\ question' = [question EXCEPT
                      !.TimeLeft = Seconds(IF cli.pc = 301 THEN lastTime
                                           ELSE cli.timeLeft)]
    /\ cli' = [cli EXCEPT !.pc = @ + 1]
    /\ UNCHANGED <<questionMutex, pause, lastTime, now, get, post, pending,
                   committed, toggle, commands>>

\* lines 287, 302, 313, 318 and 331: question.StartTime = time.Now()
cliSetStartTime ==
    /\ cli.pc \in {287, 302, 313, 318, 331}
    /\ question' = [question EXCEPT !.StartTime = now]
    /\ cli' = [cli EXCEPT !.pc = @ + 1]
    /\ toggle' = IF cli.pc = 313 /\ toggle.stage = 1
                 THEN [toggle EXCEPT !.stage = 2, !.at = now]
                 ELSE toggle
    /\ UNCHANGED <<questionMutex, pause, lastTime, now, get, post, pending,
                   committed, commands>>

\* lines 303, 319 and 332: question.CountUp = false, or true for `time countUp`
cliSetCountUp ==
    /\ cli.pc \in {303, 319, 332}
    /\ question' = [question EXCEPT !.CountUp = (cli.pc = 319)]
    /\ cli' = [cli EXCEPT !.pc = @ + 1]
    /\ UNCHANGED <<questionMutex, pause, lastTime, now, get, post, pending,
                   committed, toggle, commands>>

\* lines 336-351: `type`, with its usage and invalid-type errors
cliType(args, rest) ==
    /\ cli.pc = 0
    /\ commands' = rest
    /\ args[1] = "type"
    /\ IF Len(args) = 2 /\ args[2] \in ValidTypes
       THEN /\ cli' = [cli EXCEPT !.pc = 351, !.args = args]
            /\ toggle' = NoToggle
       ELSE UNCHANGED <<cli, toggle>>
    /\ UNCHANGED <<question, questionMutex, pause, lastTime, now, get, post,
                   pending, committed>>

\* line 352: question.Type = args[1]
cliSetType ==
    /\ cli.pc = 352
    /\ question' = [question EXCEPT !.Type = cli.args[2]]
    /\ cli' = [cli EXCEPT !.pc = 353]
    /\ UNCHANGED <<questionMutex, pause, lastTime, now, get, post, pending,
                   committed, toggle, commands>>

\* cliSetEnd as it would be without the forcing of the text
cliSetEndSkipped ==
    /\ cli.pc = 353
    /\ cli' = [cli EXCEPT !.pc = 356]
    /\ UNCHANGED <<question, questionMutex, pause, lastTime, now, get, post,
                   pending, committed, toggle, commands>>

\* lines 353-355: if question.Type == "end" { question.Question = "END" }
cliSetEnd ==
    /\ cli.pc = 353
    /\ question' = IF question.Type = "end"
                   THEN [question EXCEPT !.Question = EndText]
                   ELSE question
    /\ cli' = [cli EXCEPT !.pc = 356]
    /\ UNCHANGED <<questionMutex, pause, lastTime, now, get, post, pending,
                   committed, toggle, commands>>

\* the lines at which a command calls questionMutex.Lock()
LockLines == {285, 300, 312, 317, 329, 351}

\* the lines at which a command calls questionMutex.Unlock()
UnlockLines == {288, 304, 314, 320, 333, 356}

\* questionMutex.Lock(), announcing
cliLock ==
    /\ cli.pc \in LockLines
    /\ ~cli.wait
    /\ LockAnnounce("cli")
    /\ cli' = [cli EXCEPT !.wait = TRUE]
    /\ UNCHANGED <<question, pause, lastTime, now, get, post, pending,
                   committed, toggle, commands>>

\* questionMutex.Lock(), entering once the readers have left
cliLocked ==
    /\ cli.pc \in LockLines
    /\ cli.wait
    /\ LockEnter("cli")
    /\ cli' = [cli EXCEPT !.wait = FALSE, !.pc = @ + 1]
    /\ UNCHANGED <<question, pause, lastTime, now, get, post, pending,
                   committed, toggle, commands>>

\* questionMutex.Unlock(), and for `question` line 292: go sendCurrentQuestion()
cliUnlock ==
    /\ cli.pc \in UnlockLines
    /\ Unlock("cli")
    /\ committed' = question
    /\ pending' = IF cli.pc = 288 THEN pending + 1 ELSE pending
    /\ cli' = IdleCli
    /\ UNCHANGED <<question, pause, lastTime, now, get, post, toggle, commands>>

\* line 358: `status`
cliStatus(args, rest) ==
    /\ cli.pc = 0
    /\ commands' = rest
    /\ args[1] = "status"
    /\ cli' = [cli EXCEPT !.pc = 359, !.args = args]
    /\ UNCHANGED <<question, questionMutex, pause, lastTime, now, get, post,
                   pending, committed, toggle>>

\* line 359: questionMutex.RLock()
cliStatusLock ==
    /\ cli.pc = 359
    /\ RLock("cli")
    /\ cli' = [cli EXCEPT !.pc = 360]
    /\ UNCHANGED <<question, pause, lastTime, now, get, post, pending,
                   committed, toggle, commands>>

\* lines 362-371: the timer `status` shows: the elapsed time of a count-up, the
\* time left of a countdown, clamped at zero
statusTimer(q, since) ==
    IF q.CountUp THEN since
    ELSE LET timeLeft == Sub64(q.TimeLeft, since)
         IN  IF IsNeg64(timeLeft) THEN Zero64 ELSE timeLeft

\* lines 360-373: the status lines are printed from question itself, the read lock
\* held: the text, the timer in whole seconds, the type
cliStatusPrint ==
    /\ cli.pc = 360
    /\ \E since \in {Since(question.StartTime)} :
       \E timer \in {statusTimer(question, since)} :
          cli' = [cli EXCEPT
                    !.pc = 374, !.t = now,
                    !.out = [Question |-> question.Question,
                             Seconds |-> WholeSeconds(timer),
                             Type |-> question.Type]]
    /\ UNCHANGED <<question, questionMutex, pause, lastTime, now, get, post,
                   pending, committed, toggle, commands>>

\* line 374: questionMutex.RUnlock()
cliStatusUnlock ==
    /\ cli.pc = 374
    /\ RUnlock("cli")
    /\ cli' = IdleCli
    /\ UNCHANGED <<question, pause, lastTime, now, get, post, pending,
                   committed, toggle, commands>>

\* lines 375-379: `help`, and the unknown command
cliOther(args, rest) ==
    /\ cli.pc = 0
    /\ commands' = rest
    /\ args[1] \notin {"question", "time", "type", "status"}
    /\ UNCHANGED <<question, questionMutex, pause, lastTime, now, cli, get, post,
                   pending, committed, toggle>>

startCLI ==
    \/ \E args \in Commands :
          \/ cliQuestion(args, <<>>)
          \/ cliTimeUsage(args, <<>>)
          \/ cliTimeLast(args, <<>>)
          \/ cliTimePause(args, <<>>)
          \/ cliTimeCountUp(args, <<>>)
          \/ cliTimeSeconds(args, <<>>)
          \/ cliType(args, <<>>)
          \/ cliStatus(args, <<>>)
          \/ cliOther(args, <<>>)
    \/ cliLock
    \/ cliLocked
    \/ cliSetQuestion
    \/ cliSetTimeLeft
    \/ cliSetStartTime
    \/ cliSetCountUp
    \/ cliSetType
    \/ cliSetEnd
    \/ cliUnlock
    \/ cliStatusLock
    \/ cliStatusPrint
    \/ cliStatusUnlock

(***************************************************************************)
(* Lines of several commands.  A line is the sequence of its words, with   *)
(* ";" a word of its own; a segment is the words between two semicolons,   *)
(* empty when only blanks stand there.                                     *)
(***************************************************************************)
\* line 253: strings.Split(input, ";"), each segment trimmed and cut into its fields
RECURSIVE Split(_)
Split(line) ==
    IF \A i \in 1..Len(line) : line[i] # ";" THEN <<line>>
    ELSE LET i == CHOOSE k \in 1..Len(line) :
                      line[k] = ";" /\ \A j \in 1..(k - 1) : line[j] # ";"
         IN  <<SubSeq(line, 1, i - 1)>> \o Split(SubSeq(line, i + 1, Len(line)))

\* the lines the operator types: wrong sub-arguments, wrong arities, an unknown
\* word and empty segments, each followed by commands that are in order
Lines ==
    {<<"time", "abc", ";", ";", "question", "A", ";", "bogus", ";", "type", "end">>,
     <<"time", "-5", ";", "time", "1", ";", "type", "foo", ";", "time", "pause", ";">>,
     <<"time", ";", "type", ";", "question", ";", "time", "countUp">>,
     <<";">>,
     <<>>}

\* lines 232-253: a line is read and split; an empty line is read over
cliReadLine(line) ==
    /\ cli.pc = 0
    /\ commands = <<>>
    /\ commands' = IF line = <<>> THEN <<>> ELSE Split(line)
    /\ UNCHANGED <<question, questionMutex, pause, lastTime, now, cli, get, post,
                   pending, committed, toggle>>

\* lines 255-258: an empty segment is skipped
cliSkipEmpty ==
    /\ cli.pc = 0
    /\ commands # <<>>
    /\ Head(commands) = <<>>
    /\ commands' = Tail(commands)
    /\ UNCHANGED <<question, questionMutex, pause, lastTime, now, cli, get, post,
                   pending, committed, toggle>>

\* lines 254-260: the command the loop over the segments has reached, if any
NextCommand ==
    IF commands # <<>> /\ Head(commands) # <<>> THEN {Head(commands)} ELSE {}

\* the operator typing lines of several commands
NextLine ==
    \/ Tick
    \/ \E line \in Lines : cliReadLine(line)
    \/ cliSkipEmpty
    \/ \E args \in NextCommand :
          \/ cliQuestion(args, Tail(commands))
          \/ cliTimeUsage(args, Tail(commands))
          \/ cliTimePause(args, Tail(commands))
          \/ cliTimeCountUp(args, Tail(commands))
          \/ cliTimeSeconds(args, Tail(commands))
          \/ cliType(args, Tail(commands))
          \/ cliOther(args, Tail(commands))
    \/ cliLock
    \/ cliLocked
    \/ cliSetQuestion
    \/ cliSetTimeLeft
    \/ cliSetStartTime
    \/ cliSetCountUp
    \/ cliSetType
    \/ cliSetEnd
    \/ cliUnlock
    \/ sendCurrentQuestion

SpecLine == Init /\ [][NextLine]_vars

\* the operator at the console with every command, and one polling client
Next ==
    \/ Tick
    \/ startCLI
    \/ getQuestion("g1")
    \/ sendCurrentQuestion

Spec == Init /\ [][Next]_vars

\* the commands the operator types while the HTTP clients are at work
HttpCommands ==
    {<<"question", "A">>, <<"type", "end">>, <<"time", "pause">>}

\* the HTTP side: concurrent GET and POST handlers, while the operator sets the
\* text and the type and toggles the pause
NextHttp ==
    \/ Tick
    \/ \E args \in HttpCommands :
          \/ cliQuestion(args, <<>>)
          \/ cliTimePause(args, <<>>)
          \/ cliType(args, <<>>)
    \/ cliLock
    \/ cliLocked
    \/ cliSetQuestion
    \/ cliSetStartTime
    \/ cliSetType
    \/ cliSetEnd
    \/ cliUnlock
    \/ \E h \in Readers : getQuestion(h)
    \/ \E p \in Posters : setQuestion(p)
    \/ sendCurrentQuestion

SpecHttp == Init /\ [][NextHttp]_vars

(***************************************************************************)
(* The simpler variant, src/unnamed/part_000: the same record without the  *)
(* CountUp field (kept FALSE here), the flag Pause, main's local lastTime, *)
(* and no mutex: getQuestion reads the fields of question one by one while *)
(* the operator loop of main assigns them.  Program counters are line      *)
(* numbers of part_000; the variables are those of the richer program,     *)
(* questionMutex and post lying idle.                                      *)
(***************************************************************************)
\* line 52: GET /get-question is routed to getQuestion
simpleGetStart(h) ==
    /\ get[h].pc = 0
    /\ get' = [get EXCEPT ![h].pc = 54]
    /\ UNCHANGED <<question, questionMutex, pause, lastTime, now, cli, post,
                   pending, committed, toggle, commands>>

\* lines 54-57: q takes the fields of question, one read each
simpleGetCopy(h) ==
    /\ get[h].pc \in 54..57
    /\ get' = [get EXCEPT
                 ![h].pc = IF @ = 57 THEN 59 ELSE @ + 1,
                 ![h].q = CASE get[h].pc = 54 -> [@ EXCEPT !.Question = question.Question]
                            [] get[h].pc = 55 -> [@ EXCEPT !.TimeLeft = question.TimeLeft]
                            [] get[h].pc = 56 -> [@ EXCEPT !.Type = question.Type]
                            [] OTHER -> [@ EXCEPT !.StartTime = question.StartTime]]
    /\ UNCHANGED <<question, questionMutex, pause, lastTime, now, cli, post,
                   pending, committed, toggle, commands>>

\* lines 59-60: if Pause { return c.JSON(http.StatusOK, q) }
simpleGetPause(h) ==
    /\ get[h].pc = 59
    /\ get' = [get EXCEPT ![h].paused = pause,
                          ![h].pc = IF pause THEN 60 ELSE 62,
                          ![h].t = now,
                          ![h].resp = IF pause THEN get[h].q ELSE @]
    /\ UNCHANGED <<question, questionMutex, pause, lastTime, now, cli, post,
                   pending, committed, toggle, commands>>

\* line 62, left operand: question.TimeLeft is read again; c keeps what line 62
\* reads
simpleGetTimeLeft(h) ==
    /\ get[h].pc = 62
    /\ get' = [get EXCEPT ![h].pc = 63, ![h].c.TimeLeft = question.TimeLeft]
    /\ UNCHANGED <<question, questionMutex, pause, lastTime, now, cli, post,
                   pending, committed, toggle, commands>>

\* lines 62-67: time.Since(question.StartTime) is taken off, a negative result
\* becomes 0 with type end, and the response is written
simpleGetRespond(h) ==
    /\ get[h].pc = 63
    /\ \E left \in {Sub64(get[h].c.TimeLeft, Since(question.StartTime))} :
          get' = [get EXCEPT
                    ![h].pc = 67, ![h].t = now,
                    ![h].c.StartTime = question.StartTime,
                    ![h].resp = IF IsNeg64(left)
                                THEN [get[h].q EXCEPT !.TimeLeft = Zero64,
                                                      !.Type = "end"]
                                ELSE [get[h].q EXCEPT !.TimeLeft = left]]
    /\ UNCHANGED <<question, questionMutex, pause, lastTime, now, cli, post,
                   pending, committed, toggle, commands>>

\* the handler has returned
simpleGetReturn(h) ==
    /\ get[h].pc \in {60, 67}
    /\ get' = [get EXCEPT ![h] = IdleGet]
    /\ UNCHANGED <<question, questionMutex, pause, lastTime, now, cli, post,
                   pending, committed, toggle, commands>>

simpleGetQuestion(h) ==
    \/ simpleGetStart(h)
    \/ simpleGetCopy(h)
    \/ simpleGetPause(h)
    \/ simpleGetTimeLeft(h)
    \/ simpleGetRespond(h)
    \/ simpleGetReturn(h)

\* the commands the operator of the simpler variant types: those that touch
\* the budget, the start time, the type or Pause
SimpleCommands ==
    {<<"time", "last">>, <<"time", "pause">>,
     <<"time", "abc">>, <<"time", BigArg>>, <<"type", "foo">>, <<"type", "end">>}
    \cup {<<"time", DigitTok[n + 1]>> : n \in 0..MaxSeconds}

\* lines 205-211, 236-250: a command that goes on to assign; toggle forgets the
\* pause it followed
simpleCommand(args) ==
    /\ cli.pc = 0
    /\ \/ args = <<"time", "last">>
             /\ cli' = [cli EXCEPT !.pc = 212, !.args = args]
       \/ args[1] = "type" /\ Len(args) = 2 /\ args[2] \in ValidTypes
             /\ cli' = [cli EXCEPT !.pc = 251, !.args = args]
    /\ toggle' = NoToggle
    /\ UNCHANGED <<question, questionMutex, pause, lastTime, now, get, post,
                   pending, committed, commands>>

\* lines 206-209, 226-229, 237-250: a usage error, the command skipped
simpleUsage(args) ==
    /\ cli.pc = 0
    /\ \/ args[1] = "time" /\ Len(args) # 2
       \/ args[1] = "time" /\ Len(args) = 2
             /\ args[2] \notin {"last", "pause"} /\ ~acceptTime(Atoi(args[2]))
       \/ args[1] = "type" /\ (Len(args) # 2 \/ args[2] \notin ValidTypes)
    /\ UNCHANGED <<question, questionMutex, pause, lastTime, now, cli, get, post,
                   pending, committed, toggle, commands>>

\* lines 215-220: `time pause` flips Pause; un-pausing goes on to restart
simpleTimePause(args) ==
    /\ cli.pc = 0
    /\ args = <<"time", "pause">>
    /\ pause' = ~pause
    /\ IF pause'
       THEN /\ UNCHANGED cli
            /\ toggle' = [stage |-> 1, r |-> 0, at |-> 0]
       ELSE /\ cli' = [cli EXCEPT !.pc = 221, !.args = args]
            /\ UNCHANGED toggle
    /\ UNCHANGED <<question, questionMutex, lastTime, now, get, post, pending,
                   committed, commands>>

\* lines 225-230: `time <N>` accepted: lastTime = timeLeft
simpleTimeSeconds(args) ==
    /\ cli.pc = 0
    /\ Len(args) = 2
    /\ args[1] = "time"
    /\ args[2] \notin {"last", "pause"}
    /\ acceptTime(Atoi(args[2]))
    /\ lastTime' = Atoi(args[2]).val
    /\ cli' = [cli EXCEPT !.pc = 231, !.args = args, !.timeLeft = Atoi(args[2]).val]
    /\ toggle' = NoToggle
    /\ UNCHANGED <<question, questionMutex, pause, now, get, post, pending,
                   committed, commands>>

\* lines 212, 222 and 231: question.TimeLeft = time.Duration(n) * time.Second,
\* with n timeLeft for `time <N>` and lastTime for `time last` and the un-pause,
\* whose last statement it is
simpleSetTimeLeft ==
    /\ cli.pc \in {212, 222, 231}
    /\ question' = [question EXCEPT
                      !.TimeLeft = Seconds(IF cli.pc = 231 THEN cli.timeLeft
                                           ELSE lastTime)]
    /\ cli' = IF cli.pc = 222 THEN IdleCli ELSE [cli EXCEPT !.pc = @ + 1]
    /\ toggle' = IF cli.pc = 222 THEN [toggle EXCEPT !.stage = 2] ELSE toggle
    /\ UNCHANGED <<questionMutex, pause, lastTime, now, get, post, pending,
                   committed, commands>>

\* lines 213, 221 and 232: question.StartTime = time.Now(); toggle notes the
\* instant of the un-pause
simpleSetStartTime ==
    /\ cli.pc \in {213, 221, 232}
    /\ question' = [question EXCEPT !.StartTime = now]
    /\ cli' = IF cli.pc = 221 THEN [cli EXCEPT !.pc = 222] ELSE IdleCli
    /\ toggle' = IF cli.pc = 221 THEN [toggle EXCEPT !.at = now] ELSE toggle
    /\ UNCHANGED <<questionMutex, pause, lastTime, now, get, post, pending,
                   committed, commands>>

\* line 251: question.Type = args[1]
simpleSetType ==
    /\ cli.pc = 251
    /\ question' = [question EXCEPT !.Type = cli.args[2]]
    /\ cli' = IdleCli
    /\ UNCHANGED <<questionMutex, pause, lastTime, now, get, post, pending,
                   committed, toggle, commands>>

\* lines 144-273: the operator loop of the simpler variant
simpleMain ==
    \/ \E args \in SimpleCommands :
          \/ simpleCommand(args)
          \/ simpleUsage(args)
          \/ simpleTimePause(args)
          \/ simpleTimeSeconds(args)
    \/ simpleSetTimeLeft
    \/ simpleSetStartTime
    \/ simpleSetType

NextSimple ==
    \/ Tick
    \/ simpleMain
    \/ simpleGetQuestion("g1")

SpecSimple == Init /\ [][NextSimple]_vars

(***************************************************************************)
(* Scheduling.  Every goroutine that can take a step takes one (weak       *)
(* fairness).  A goroutine blocked in RLock or Lock gets the lock if it    *)
(* can be had again and again (strong fairness): Unlock admits the readers *)
(* that wait before the next writer, and the writers queue on the mutex    *)
(* inside the RWMutex, which hands over to the longest waiter.  Nothing is *)
(* assumed of the arrival of requests and of the operator's typing.        *)
(***************************************************************************)
\* the commands the operator types while the lock is contended
FairCommands == {<<"type", "end">>, <<"status">>}

\* GET and POST handlers, the operator writing and reading, the notifications
NextFair ==
    \/ \E args \in FairCommands :
          \/ cliType(args, <<>>)
          \/ cliStatus(args, <<>>)
    \/ cliLock
    \/ cliLocked
    \/ cliSetType
    \/ cliSetEnd
    \/ cliUnlock
    \/ cliStatusLock
    \/ cliStatusPrint
    \/ cliStatusUnlock
    \/ \E h \in Readers : getArrive(h) \/ getQuestion(h)
    \/ \E p \in Posters : setQuestion(p)
    \/ sendCurrentQuestion

\* a handler that waits at line 104 takes the read lock
getLockWaited(h) == get[h].pc = 104 /\ getCopy(h)

Fairness ==
    /\ \A h \in Readers :
          /\ SF_vars(getLockWaited(h))
          /\ WF_vars(getRespond(h))
          /\ WF_vars(getReturn(h))
    /\ \A p \in Posters :
          /\ SF_vars(setQuestionLock(p))
          /\ WF_vars(setQuestionLocked(p))
          /\ WF_vars(setQuestionStore(p))
          /\ WF_vars(setQuestionUnlock(p))
    /\ SF_vars(cliLock)
    /\ WF_vars(cliLocked)
    /\ WF_vars(cliSetType)
    /\ WF_vars(cliSetEnd)
    /\ WF_vars(cliUnlock)
    /\ SF_vars(cliStatusLock)
    /\ WF_vars(cliStatusPrint)
    /\ WF_vars(cliStatusUnlock)
    /\ SF_vars(sendCurrentQuestion)

SpecFair == Init /\ [][NextFair]_vars /\ Fairness

(***************************************************************************)
(* Properties                                                              *)
(***************************************************************************)

\* C1: whatever the interleaving of GET handlers, operator commands and POST
\* writes, the copy a GET handler works on is the record exactly as the last
\* completed write left it at the instant of the copy, and the response takes its
\* text, start time and count-up flag from that one record and its type from it or
\* from the projection to "end": no response mixes the fields of two writes.
C1_ReadsSeeOneWrite ==
    \A h \in Readers :
        /\ get[h].pc \in {109, 123} => get[h].q = get[h].c
        /\ get[h].pc = 123 =>
              /\ get[h].resp.Question = get[h].c.Question
              /\ get[h].resp.StartTime = get[h].c.StartTime
              /\ get[h].resp.CountUp = get[h].c.CountUp
              /\ get[h].resp.Type \in {get[h].c.Type, "end"}

\* C1 witness: a GET has answered with the text of a `question` command written
\* after the clock moved, while a POST writer waits for the lock it holds.
C1_Witness ==
    \E h \in Readers :
        /\ get[h].pc = 123
        /\ get[h].resp.Question = <<"A">>
        /\ get[h].resp.StartTime > 0
        /\ questionMutex.w \in Posters

\* C2: a GET that reads Paused = false on a countdown with a budget >= 0 reports
\* time_left = budget - (now - startedAt) when that is positive, and time_left = 0
\* with type end whenever it is <= 0, the case of exactly zero included.
C2_CountdownEndsAtZero ==
    \A h \in Readers :
        (/\ get[h].pc = 123
         /\ ~get[h].paused
         /\ ~get[h].q.CountUp
         /\ SecondsOf(get[h].q.TimeLeft) >= 0)
        => IF RemainingAt(get[h].q, get[h].t) > 0
           THEN get[h].resp.TimeLeft = DurationOf[RemainingAt(get[h].q, get[h].t)]
           ELSE get[h].resp.TimeLeft = Zero64 /\ get[h].resp.Type = "end"

\* C3: the time_left of every GET response is >= 0, whatever commands and POST
\* requests came before and whatever the Paused flag.
C3_TimeLeftNeverNegative ==
    \A h \in Readers : get[h].pc = 123 => ~IsNeg64(get[h].resp.TimeLeft)

\* C4: the stored budget question.TimeLeft is never negative.
C4_BudgetNeverNegative == ~IsNeg64(question.TimeLeft)

\* C5: whenever no write is in progress, a stored type of end comes with the
\* stored text "END".
C5_EndImpliesEndText ==
    ~questionMutex.held => (question.Type = "end" => question.Question = EndText)

\* C6: when `type end` or an accepted POST with type end has made its last
\* assignment and is about to unlock, the stored type is end and the stored text
\* is "END", whatever the text was before and whatever text the body carried.
C6_TypeEndStoresEndText ==
    /\ (cli.pc = 356 /\ cli.args = <<"type", "end">>)
          => question.Type = "end" /\ question.Question = EndText
    /\ \A p \in Posters :
          (post[p].pc = 142 /\ post[p].newQuestion.Type = "end")
          => question.Type = "end" /\ question.Question = EndText

\* C6 witness: a POST whose body carried the text "B" with type end is about to
\* unlock, the text committed before it being "A".
C6_Witness ==
    \E p \in Posters :
        /\ post[p].pc = 142
        /\ post[p].newQuestion.Type = "end"
        /\ post[p].newQuestion.Question = <<"B">>
        /\ committed.Question = <<"A">>

\* the body a POST handler works on during a step: the one it binds as it starts,
\* the bound one afterwards
BodyInStep(p) == IF post[p].pc = 0 THEN post'[p].newQuestion ELSE post[p].newQuestion

\* C7: every step of a POST handler whose body has time_left < 0 or a type outside
\* {pomoc, rozstrel, waiting, end} leaves the stored record, the Paused flag,
\* LastManualSeconds and the notifications dispatched as they were, and the handler
\* ends with a 400 response.
C7_RejectedPostChangesNothing ==
    [][\A p \in Posters :
          (/\ post'[p] # post[p]
           /\ \/ IsNeg64(BodyInStep(p).TimeLeft)
              \/ BodyInStep(p).Type \notin {"pomoc", "rozstrel", "waiting", "end"})
          => /\ question' = question
             /\ pause' = pause
             /\ lastTime' = lastTime
             /\ pending' = pending
             /\ post'[p].pc \in {0, 148}
             /\ post'[p].pc = 148 => post'[p].status = 400]_vars

\* C7 witness: a POST with a negative time_left has been answered 400 while an
\* operator command is under way.
C7_Witness ==
    \E p \in Posters :
        /\ post[p].pc = 148
        /\ post[p].status = 400
        /\ IsNeg64(post[p].newQuestion.TimeLeft)
        /\ cli.pc # 0

\* C8: no step of a GET handler or of the `status` command changes the stored
\* record, the Paused flag or LastManualSeconds.
C8_ReadPathWritesNothing ==
    [][(get' # get \/ (cli' # cli /\ (cli.pc \in 359..374 \/ cli'.pc = 359)))
          => question' = question /\ pause' = pause /\ lastTime' = lastTime]_vars

\* C8 witness: a countdown has crossed zero: the response reports type end while
\* the stored type is still pomoc.
C8_Witness ==
    /\ get["g1"].pc = 123
    /\ get["g1"].resp.Type = "end"
    /\ question.Type = "pomoc"
    /\ committed.Type = "pomoc"

\* C9: GET handlers that read Paused = true with no write in between answer with
\* the stored fields unchanged, and so with identical output, whatever the time.
C9_PausedReadsIdentical ==
    \A h1, h2 \in Readers :
        (get[h1].pc = 123 /\ get[h1].paused /\ get[h2].pc = 123 /\ get[h2].paused)
        => get[h1].resp = question /\ get[h1].resp = get[h2].resp

\* C9 witness: two paused reads at different times of a countdown that is not of
\* type end and has run out by the time of the later one.
C9_Witness ==
    /\ get["g1"].pc = 123 /\ get["g1"].paused
    /\ get["g2"].pc = 123 /\ get["g2"].paused
    /\ get["g1"].t < get["g2"].t
    /\ question.Type # "end"
    /\ ~question.CountUp
    /\ SecondsOf(question.TimeLeft) >= 0
    /\ SecondsOf(question.TimeLeft) < get["g2"].t - question.StartTime

\* C10: after `time pause` twice with no other write in between, a GET d seconds
\* after the un-pause reports max(0, r - d), with r the time the countdown had left
\* at the first toggle.
C10_ResumeNetOfPause ==
    \A h \in Readers :
        (get[h].pc = 123 /\ ~get[h].paused /\ ~pause /\ toggle.stage = 2)
        => get[h].resp.TimeLeft =
              DurationOf[IF toggle.r - (get[h].t - toggle.at) > 0
                         THEN toggle.r - (get[h].t - toggle.at) ELSE 0]

\* C11: a GET that reads Paused = false on a count-up record d seconds after its
\* start reports time_left = d, with the text and the type as stored: elapsed time
\* never turns the type into end.
C11_CountUpReportsElapsed ==
    \A h \in Readers :
        (get[h].pc = 123 /\ ~get[h].paused /\ get[h].q.CountUp)
        => /\ get[h].resp.TimeLeft = DurationOf[get[h].t - get[h].q.StartTime]
           /\ get[h].resp.Question = get[h].q.Question
           /\ get[h].resp.Type = get[h].q.Type
           /\ get[h].resp.CountUp

\* C11 witness: a count-up read after more time than the stored budget, which a
\* countdown would have reported as ended.
C11_Witness ==
    \E h \in Readers :
        /\ get[h].pc = 123 /\ ~get[h].paused /\ get[h].q.CountUp
        /\ get[h].q.Type # "end"
        /\ SecondsOf(get[h].q.TimeLeft) >= 0
        /\ get[h].t - get[h].q.StartTime > SecondsOf(get[h].q.TimeLeft)

\* C12: `status` and a GET /get-question that work on the same stored record, the
\* same Paused flag and the same clock reading report the same text, the same timer
\* value (in the whole seconds `status` prints) and the same type.
C12_StatusAgreesWithGet ==
    \A h \in Readers :
        (/\ cli.pc = 374
         /\ get[h].pc = 123
         /\ get[h].q = question
         /\ get[h].t = cli.t
         /\ get[h].paused = pause)
        => /\ cli.out.Question = get[h].resp.Question
           /\ cli.out.Seconds = WholeSeconds(get[h].resp.TimeLeft)
           /\ cli.out.Type = get[h].resp.Type

\* a token made of decimal digits only
IsNumber(tok) == \A i \in 1..Len(Chars(tok)) : IsDigit(Chars(tok)[i])

\* a command of malformed arity, with an unknown sub-argument or with an unknown
\* leading word
IsUsageError(args) ==
    \/ args[1] \notin {"question", "time", "type", "status", "help"}
    \/ args[1] = "question" /\ Len(args) < 2
    \/ args[1] = "time" /\ Len(args) # 2
    \/ args[1] = "time" /\ Len(args) = 2
          /\ args[2] \notin {"last", "pause", "countUp"} /\ ~IsNumber(args[2])
    \/ args[1] = "type" /\ (Len(args) # 2 \/ args[2] \notin ValidTypes)

\* C13: the segments of a line are taken one at a time from the left, by the idle
\* loop; an empty segment or a command in error changes none of the stored record,
\* the Paused flag and LastManualSeconds and starts no write, and the segments after
\* it are kept; a command in order is applied: it starts its write, toggles the
\* pause or prints the help.
C13_UsageErrorsSkipped ==
    [][(commands # <<>> /\ commands' # commands)
          => /\ commands' = Tail(commands)
             /\ cli.pc = 0
             /\ (Head(commands) = <<>> \/ IsUsageError(Head(commands)))
                   => /\ question' = question
                      /\ pause' = pause
                      /\ lastTime' = lastTime
                      /\ cli' = cli
             /\ (Head(commands) # <<>> /\ ~IsUsageError(Head(commands)))
                   => \/ cli'.pc # 0 /\ cli'.args = Head(commands)
                      \/ Head(commands) = <<"time", "pause">> /\ pause' = ~pause
                      \/ Head(commands) = <<"help">>]_vars

\* C13 witness: of the line `time abc;;question A;bogus;type end`, the command
\* `question A`, which follows a wrong sub-argument and an empty segment, has
\* written its text, with `bogus` and `type end` still to come.
C13_Witness ==
    /\ cli.pc = 288
    /\ cli.args = <<"question", "A">>
    /\ question.Question = <<"A">>
    /\ commands = << <<"bogus">>, <<"type", "end">> >>

\* C14: every write of the stored record, as its writer unlocks (an operator
\* command or an accepted POST), dispatches one notification goroutine.
C14_WriteDispatchesNotification ==
    [][(questionMutex.held /\ ~questionMutex'.held) => pending' = pending + 1]_vars

\* C15: the lock is released before any I/O: a GET handler that has written its
\* response, `status` once it has printed its lines and a POST handler that has
\* responded hold questionMutex no longer.
C15_NoLockAcrossIO ==
    /\ \A h \in Readers : get[h].pc = 123 => h \notin questionMutex.r
    /\ cli.pc = 374 => "cli" \notin questionMutex.r
    /\ \A p \in Posters : post[p].pc = 148 => questionMutex.w # p

\* C16: the 200 response of a POST is the record that request stored: its body,
\* with the text forced to "END" when the type is end (startedAt, the write
\* instant, aside).
C16_PostRespondsWithItsWrite ==
    \A p \in Posters :
        (post[p].pc = 148 /\ post[p].status = 200)
        => /\ post[p].resp.Question =
                 (IF post[p].newQuestion.Type = "end" THEN EndText
                  ELSE post[p].newQuestion.Question)
           /\ post[p].resp.TimeLeft = post[p].newQuestion.TimeLeft
           /\ post[p].resp.Type = post[p].newQuestion.Type
           /\ post[p].resp.CountUp = post[p].newQuestion.CountUp

\* C17: no GET handler reads Paused = false while an un-pause has flipped the flag
\* and has not yet written the new startedAt.
C17_UnpauseAtomicForReaders ==
    [][\A h \in Readers :
          (get[h].pc = 109 /\ get'[h].pc = 123 /\ ~get'[h].paused)
          => cli.pc \notin {312, 313}]_vars

\* the budget d is n seconds, n >= 0
IsSeconds(d, n) == ~IsNeg64(d) /\ WholeSeconds(d) = n /\ Sub64(d, Seconds(n)) = Zero64

\* C18: an accepted `time <N>` records N as LastManualSeconds as it is taken and
\* unlocks with the budget at N seconds, countUp false, startedAt set, and the text
\* and the type of before; `time countUp` unlocks with countUp true, startedAt set,
\* and the text, the type and the budget of before; neither changes the Paused
\* flag, and `time countUp` leaves LastManualSeconds alone.
C18_TimeCommandsFrame ==
    [][/\ (cli.pc = 0 /\ cli'.pc = 329)
             => lastTime' = Atoi(cli'.args[2]).val /\ ~IsNeg64(lastTime')
       /\ (cli.pc = 331 /\ cli'.pc = 332) => question'.StartTime = now
       /\ (cli.pc = 333 /\ cli'.pc = 0)
             => /\ IsSeconds(question'.TimeLeft, Atoi(cli.args[2]).val)
                /\ ~question'.CountUp
                /\ question'.Question = committed.Question
                /\ question'.Type = committed.Type
                /\ lastTime' = Atoi(cli.args[2]).val
       /\ (cli.pc \in 329..333) => pause' = pause
       /\ (cli.pc = 318 /\ cli'.pc = 319) => question'.StartTime = now
       /\ (cli.pc = 320 /\ cli'.pc = 0)
             => /\ question'.CountUp
                /\ question'.TimeLeft = committed.TimeLeft
                /\ question'.Question = committed.Question
                /\ question'.Type = committed.Type
       /\ (cli.pc \in 317..320 \/ cli'.pc = 317)
             => pause' = pause /\ lastTime' = lastTime]_vars

\* C19: `time last` unlocks with the budget at LastManualSeconds seconds, countUp
\* false and startedAt set; LastManualSeconds is 0 at the start and changes only
\* as an accepted `time <N>` is taken, to that N.
C19_TimeLastRestores ==
    [][/\ (cli.pc = 302 /\ cli'.pc = 303) => question'.StartTime = now
       /\ (cli.pc = 304 /\ cli'.pc = 0)
             => /\ IsSeconds(question'.TimeLeft, lastTime)
                /\ ~question'.CountUp
                /\ question'.Question = committed.Question
                /\ question'.Type = committed.Type
       /\ lastTime' # lastTime
             => /\ cli.pc = 0 /\ cli'.pc = 329
                /\ acceptTime(Atoi(cli'.args[2]))
                /\ lastTime' = Atoi(cli'.args[2]).val]_vars

C21_SimpleUnpauseRestarts ==
    [][/\ (cli.pc = 0 /\ ~pause /\ pause') => question' = question
       /\ (cli.pc = 221 /\ cli'.pc = 222) => question'.StartTime = now
       /\ (cli.pc = 222 /\ cli'.pc = 0)
             => /\ IsSeconds(question'.TimeLeft, lastTime)
                /\ question'.Question = question.Question
                /\ question'.Type = question.Type
       /\ \A h \in Readers :
             (/\ get[h].pc = 63 /\ get'[h].pc = 67
              /\ toggle.stage = 2
              /\ lastTime = Zero64
              /\ get[h].q = question
              /\ get[h].c.TimeLeft = question.TimeLeft
              /\ question.StartTime = toggle.at)
             => get'[h].resp.TimeLeft = Zero64 /\ get'[h].resp.Type = "end"]_vars

====
